---- MODULE Spec2Model ----
(***************************************************************************)
(* A model of the geometric core of cochleogram: the Points class          *)
(* (path ordering, curve sampling, exclusion intervals, state round trip), *)
(* util.smooth_epochs, Piece.merge_tiles, Piece.guess_cells,              *)
(* Piece.from_path, Tile.center and Cochlea.make_frequency_map.            *)
(*                                                                         *)
(* Coordinates are IEEE doubles in the code.  A coordinate is modelled as  *)
(* a record: a finite integer value, NaN, +inf or -inf, with the           *)
(* arithmetic numpy applies to them.  Indices are 0-based, as in the code; *)
(* sequences are 1-based, so element i of a list is s[i + 1].              *)
(***************************************************************************)
EXTENDS Integers, Sequences, FiniteSets, TLC

VARIABLES
    x,          \* Points.x
    y,          \* Points.y
    origin,     \* Points.origin
    exclude,    \* Points.exclude: a list of <<start anchor, end anchor>>
    op,         \* the last call made on the object
    raised,     \* the exception the last call raised, or "none"
    ret,        \* the value the last call returned or the message of the
                \* exception it raised, or NoValue
    peaks,      \* guess_cells: the peaks found in the last intensity trace
    epochsArg,  \* smooth_epochs: its argument
    epochsRet,  \* smooth_epochs: its result
    tiles,      \* Piece.tiles
    merged,     \* the Tile merge_tiles returned
    pieces      \* Cochlea.pieces: the spiral of every piece

pointVars == <<x, y, origin, exclude, op, raised, ret>>
epochVars == <<epochsArg, epochsRet>>
tileVars == <<tiles, merged>>
vars == <<pointVars, peaks, epochVars, tileVars, pieces>>

\* what a call on a Points object leaves alone
otherVars == <<peaks, epochVars, tileVars, pieces>>

NoValue == <<"no value">>

\* the parts of the state a specification does not use
NoPoints ==
    /\ x = <<>>
    /\ y = <<>>
    /\ origin = 0
    /\ exclude = <<>>
    /\ op = "init"
    /\ raised = "none"
    /\ ret = NoValue
NoPeaks == peaks = NoValue
NoEpochs == epochsArg = <<>> /\ epochsRet = NoValue
NoTiles == tiles = <<>> /\ merged = NoValue
NoPieces == pieces = <<>>

------------------------------------------------------------------------------
(* Floating point values and the numpy arithmetic used on them.            *)

Fin(n) == [k |-> "fin", v |-> n]
NaN == [k |-> "nan", v |-> 0]
PInf == [k |-> "inf", v |-> 1]
NInf == [k |-> "inf", v |-> -1]

isnan(a) == a.k = "nan"
isfinite(a) == a.k = "fin"

\* a - b
FSub(a, b) ==
    IF isnan(a) \/ isnan(b) THEN NaN
    ELSE IF isfinite(a) /\ isfinite(b) THEN Fin(a.v - b.v)
    ELSE IF isfinite(b) THEN a
    ELSE IF isfinite(a) THEN [k |-> "inf", v |-> 0 - b.v]
    ELSE IF a.v = b.v THEN NaN      \* inf - inf
    ELSE a

\* a ** 2
FSq(a) ==
    IF isnan(a) THEN NaN
    ELSE IF isfinite(a) THEN Fin(a.v * a.v)
    ELSE PInf

\* a + b, for the non-negative values a square can take
FAdd(a, b) ==
    IF isnan(a) \/ isnan(b) THEN NaN
    ELSE IF isfinite(a) /\ isfinite(b) THEN Fin(a.v + b.v)
    ELSE PInf

\* a < b; every comparison with NaN is false
FLess(a, b) ==
    IF isnan(a) \/ isnan(b) THEN FALSE
    ELSE IF isfinite(a) /\ isfinite(b) THEN a.v < b.v
    ELSE IF isfinite(a) THEN b.v > 0
    ELSE IF isfinite(b) THEN a.v < 0
    ELSE a.v < b.v

\* The squared Euclidean distance between two points.  The code compares
\* np.sqrt of this sum; sqrt is monotone and keeps NaN and inf, so argmin and
\* the threshold comparison are decided by the squares.
Dist2(p, q) == FAdd(FSq(FSub(p[1], q[1])), FSq(FSub(p[2], q[2])))

\* np.argmin of a non-empty list: the first NaN if there is one, else the
\* first occurrence of the minimum.  0-based.  The scan keeps in b the
\* 1-based position of the answer among the first i elements.
RECURSIVE ArgMinScan(_, _, _)
ArgMinScan(d, i, b) ==
    IF i > Len(d) THEN b - 1
    ELSE IF isnan(d[b]) THEN b - 1
    ELSE IF isnan(d[i]) \/ FLess(d[i], d[b]) THEN ArgMinScan(d, i + 1, i)
    ELSE ArgMinScan(d, i + 1, b)

\* Faulty variant of ArgMin: of equal smallest values the last is taken
ArgMinLast(d) ==
    LET a == ArgMinScan(d, 2, 1) + 1
    IN  (CHOOSE i \in 1..Len(d) :
            d[i] = d[a] /\ \A j \in (i + 1)..Len(d) : d[j] # d[a]) - 1

ArgMin(d) == ArgMinScan(d, 2, 1)

\* Faulty variant of Pop: removes the element before the one asked for
PopOffByOne(s, i) == [j \in 1..(Len(s) - 1) |-> IF j < i THEN s[j] ELSE s[j + 1]]

\* list.pop(i): the list without its element at 0-based index i
Pop(s, i) == [j \in 1..(Len(s) - 1) |-> IF j <= i THEN s[j] ELSE s[j + 1]]

SeqsUpTo(S, n) == UNION {[1..m -> S] : m \in 0..n}

\* list(zip(x, y))
Zip(xs, ys) == [i \in 1..Len(xs) |-> <<xs[i], ys[i]>>]

------------------------------------------------------------------------------
(* Points.get_nodes / util.shortest_path                                   *)

\* The while loop of get_nodes.  The result is the path as a list of
\* points (the code returns its transpose, one tuple of x and one of y, so
\* len(nodes[0]) is the length of this list), or IndexError when pop(i) is
\* out of range.
RECURSIVE GetNodesLoop(_, _, _)
GetNodesLoop(nodes, i, path) ==
    IF Len(nodes) > 1
    THEN IF i >= Len(nodes)
         THEN [raised |-> "IndexError", path |-> <<>>]
         ELSE LET n == nodes[i + 1]
                  rest == Pop(nodes, i)
                  d == [j \in 1..Len(rest) |-> Dist2(rest[j], n)]
              IN  GetNodesLoop(rest, ArgMin(d), Append(path, n))
    ELSE [raised |-> "none", path |-> path \o nodes]

get_nodes(xs, ys, i) == GetNodesLoop(Zip(xs, ys), i, <<>>)

------------------------------------------------------------------------------
(* util.smooth_epochs                                                      *)

\* Faulty variant of SortColumn: the column is left in the order given
SortColumnUnsorted(epochs, c) == [i \in 1..Len(epochs) |-> epochs[i][c]]

\* One column of epochs after epochs.sort(axis=0): numpy sorts each column of
\* the 2-D array on its own, so the starts and the ends are sorted separately.
SortColumn(epochs, c) ==
    SortSeq([i \in 1..Len(epochs) |-> epochs[i][c]], LAMBDA a, b : a < b)

\* The inner while loop: from 0-based index i and upper bound ub, the index and
\* upper bound at which the run ends.
RECURSIVE ExtendRun(_, _, _)
ExtendRun(epochs, i, ub) ==
    IF i < Len(epochs) /\ ub >= epochs[i + 1][1]
    THEN ExtendRun(epochs, i + 1, epochs[i + 1][2])
    ELSE [i |-> i, ub |-> ub]

\* The outer while loop
RECURSIVE SmoothLoop(_, _, _)
SmoothLoop(epochs, i, smoothed) ==
    IF i < Len(epochs)
    THEN LET lb == epochs[i + 1][1]
             run == ExtendRun(epochs, i + 1, epochs[i + 1][2])
         IN  SmoothLoop(epochs, run.i, Append(smoothed, <<lb, run.ub>>))
    ELSE smoothed

smooth_epochs(epochs) ==
    IF Len(epochs) = 0
    THEN epochs
    ELSE LET lbs == SortColumn(epochs, 1)
             ubs == SortColumn(epochs, 2)
             sorted == [i \in 1..Len(epochs) |-> <<lbs[i], ubs[i]>>]
         IN  SmoothLoop(sorted, 0, <<>>)

------------------------------------------------------------------------------
(* Points: the curve through the nodes                                     *)

AllFinite(path) == \A i \in 1..Len(path) : isfinite(path[i][1]) /\ isfinite(path[i][2])

\* The point half way between two finite points
Mid(p, q) == <<Fin((p[1].v + q[1].v) \div 2), Fin((p[2].v + q[2].v) \div 2)>>

\* scipy's splprep and splev, which are not code of this repository: an
\* interpolating curve through the ordered nodes, sampled along its parameter.
\* The model samples it at every node and half way between consecutive nodes.
\* splprep rejects input that is not finite and consecutive points that
\* coincide (ValueError).
SplineSamples(path) ==
    IF ~AllFinite(path) \/ \E i \in 1..(Len(path) - 1) : path[i] = path[i + 1]
    THEN [raised |-> "ValueError", curve |-> <<>>]
    ELSE [raised |-> "none",
          curve |-> [j \in 1..(2 * Len(path) - 1) |->
                        IF j % 2 = 1 THEN path[(j + 1) \div 2]
                        ELSE Mid(path[j \div 2], path[j \div 2 + 1])]]

\* Points.interpolate: the sampled curve, empty for 3 nodes or fewer
interpolate(xs, ys, o) ==
    LET nodes == get_nodes(xs, ys, o)
    IN  IF nodes.raised # "none" THEN [raised |-> nodes.raised, curve |-> <<>>]
        ELSE IF Len(nodes.path) <= 3 THEN [raised |-> "none", curve |-> <<>>]
        ELSE SplineSamples(nodes.path)

\* Points.length: NaN for 3 nodes or fewer, else the samples of the curve's
\* first derivative (here the steps between consecutive samples)
length(xs, ys, o) ==
    LET c == interpolate(xs, ys, o)
    IN  IF c.raised # "none" THEN [raised |-> c.raised, value |-> NoValue]
        ELSE IF Len(c.curve) = 0 THEN [raised |-> "none", value |-> <<NaN>>]
        ELSE [raised |-> "none",
              value |-> [j \in 1..(Len(c.curve) - 1) |->
                            <<FSub(c.curve[j + 1][1], c.curve[j][1]),
                              FSub(c.curve[j + 1][2], c.curve[j][2])>>]]

\* util.argnearest: the 0-based index of the sample nearest to p; np.argmin
\* raises ValueError on an empty list.
argnearest(p, curve) ==
    IF Len(curve) = 0 THEN [raised |-> "ValueError", i |-> 0]
    ELSE [raised |-> "none", i |-> ArgMin([j \in 1..Len(curve) |-> Dist2(curve[j], p)])]

\* Points.nearest_point, given what its call of interpolate returns: the
\* sample nearest to p, or the exception of interpolate or of np.argmin
NearestOn(c, p) ==
    IF c.raised # "none" THEN [raised |-> c.raised, pt |-> p]
    ELSE LET a == argnearest(p, c.curve)
         IN  IF a.raised # "none" THEN [raised |-> a.raised, pt |-> p]
             ELSE [raised |-> "none", pt |-> c.curve[a.i + 1]]

nearest_point(xs, ys, o, p) == NearestOn(interpolate(xs, ys, o), p)

\* One turn of the loop of update_exclude: both anchors snapped again; the
\* interval is dropped when a snap raises or both anchors become one point.
\* c is what interpolate returns for the nodes, the same at every call the
\* loop makes.
Resnap(c, iv) ==
    LET s == NearestOn(c, iv[1])
        e == NearestOn(c, iv[2])
    IN  [keep |-> s.raised = "none" /\ e.raised = "none" /\ s.pt # e.pt,
         iv |-> <<s.pt, e.pt>>]

\* Points.update_exclude: the new value of exclude
update_exclude(xs, ys, o, excl) ==
    IF Len(excl) = 0 THEN <<>>
    ELSE LET c == interpolate(xs, ys, o)
             r == [i \in 1..Len(excl) |-> Resnap(c, excl[i])]
             kept == SelectSeq(r, LAMBDA e : e.keep)
         IN  [i \in 1..Len(kept) |-> kept[i].iv]

\* Points.find_node: the 0-based index of the nearest node when it lies
\* strictly within the hit threshold, else ValueError (np.argmin of no nodes
\* raises ValueError too).
hit_threshold == 25

\* Faulty variant of find_node: a node at the hit threshold itself is a hit
find_node_inclusive(xs, ys, p) ==
    IF Len(xs) = 0 THEN [raised |-> "ValueError", i |-> 0]
    ELSE LET nodes == Zip(xs, ys)
             d == [j \in 1..Len(nodes) |-> Dist2(nodes[j], p)]
             i == ArgMin(d)
         IN  IF FLess(d[i + 1], Fin(hit_threshold * hit_threshold + 1))
             THEN [raised |-> "none", i |-> i]
             ELSE [raised |-> "ValueError", i |-> 0]

find_node(xs, ys, p) ==
    IF Len(xs) = 0 THEN [raised |-> "ValueError", i |-> 0]
    ELSE LET nodes == Zip(xs, ys)
             d == [j \in 1..Len(nodes) |-> Dist2(nodes[j], p)]
             i == ArgMin(d)
         IN  IF FLess(d[i + 1], Fin(hit_threshold * hit_threshold))
             THEN [raised |-> "none", i |-> i]
             ELSE [raised |-> "ValueError", i |-> 0]

has_node(xs, ys, p) == find_node(xs, ys, p).raised = "none"

\* The index pair simplify_exclude computes for one interval
IndexPair(iv, curve) ==
    LET si == argnearest(iv[1], curve).i
        ei == argnearest(iv[2], curve).i
    IN  <<IF si <= ei THEN si ELSE ei, IF si <= ei THEN ei ELSE si>>

\* Faulty variant of simplify_exclude: the end anchor of every run is moved one sample
\* on, where the curve has one
simplify_exclude_widen(xs, ys, o, excl) ==
    LET c == interpolate(xs, ys, o)
    IN  IF c.raised # "none" THEN [raised |-> c.raised, exclude |-> excl]
        ELSE IF Len(excl) > 0 /\ Len(c.curve) = 0
        THEN [raised |-> "ValueError", exclude |-> excl]
        ELSE LET indices == smooth_epochs([i \in 1..Len(excl) |-> IndexPair(excl[i], c.curve)])
             IN  [raised |-> "none",
                  exclude |-> [i \in 1..Len(indices) |->
                                  <<c.curve[indices[i][1] + 1],
                                    c.curve[IF indices[i][2] + 2 <= Len(c.curve)
                                            THEN indices[i][2] + 2
                                            ELSE indices[i][2] + 1]>>]]

\* Points.simplify_exclude: the new value of exclude, or the exception raised
\* (by interpolate, or by argnearest when there is no curve to index)
simplify_exclude(xs, ys, o, excl) ==
    LET c == interpolate(xs, ys, o)
    IN  IF c.raised # "none" THEN [raised |-> c.raised, exclude |-> excl]
        ELSE IF Len(excl) > 0 /\ Len(c.curve) = 0
        THEN [raised |-> "ValueError", exclude |-> excl]
        ELSE LET indices == smooth_epochs([i \in 1..Len(excl) |-> IndexPair(excl[i], c.curve)])
             IN  [raised |-> "none",
                  exclude |-> [i \in 1..Len(indices) |->
                                  <<c.curve[indices[i][1] + 1], c.curve[indices[i][2] + 1]>>]]

------------------------------------------------------------------------------
(* Points: the operations                                                  *)

\* What an operation that raises leaves behind: nothing but the exception
Raise(name, e) ==
    /\ op' = name
    /\ raised' = e
    /\ ret' = NoValue
    /\ UNCHANGED <<x, y, origin, exclude>>

Done(name) ==
    /\ op' = name
    /\ raised' = "none"
    /\ ret' = NoValue

\* ~m of set_nodes and set_state, m = np.isnan(x) | np.isnan(y): the positions
\* that are kept
NotNaN(xs, ys) == {i \in 1..Len(xs) : ~(isnan(xs[i]) \/ isnan(ys[i]))}

\* a[~m]
Masked(a, keep) ==
    LET F[i \in 0..Len(a)] ==
            IF i = 0 THEN <<>>
            ELSE IF i \in keep THEN Append(F[i - 1], a[i]) ELSE F[i - 1]
    IN  F[Len(a)]

\* Points.set_nodes(x, y): the fields it assigns; exclude is not touched
StoreNodes(xs, ys) ==
    /\ x' = Masked(xs, NotNaN(xs, ys))
    /\ y' = Masked(ys, NotNaN(xs, ys))
    /\ UNCHANGED <<origin, exclude>>

set_nodes(name, xs, ys) == StoreNodes(xs, ys) /\ Done(name)

\* Points.add_node(x, y)
add_node(p) ==
    IF ~(isfinite(p[1]) /\ isfinite(p[2]))
    THEN Raise("add_node", "ValueError")
    ELSE IF has_node(x, y, p)
    THEN /\ UNCHANGED <<x, y, origin, exclude>>
         /\ Done("add_node")
    ELSE /\ x' = Append(x, p[1])
         /\ y' = Append(y, p[2])
         /\ exclude' = update_exclude(x', y', origin, exclude)
         /\ UNCHANGED origin
         /\ Done("add_node")

\* Points.remove_node(x, y)
remove_node(p) ==
    LET f == find_node(x, y, p)
    IN  IF f.raised # "none"
        THEN Raise("remove_node", f.raised)
        ELSE /\ x' = Pop(x, f.i)
             /\ y' = Pop(y, f.i)
             /\ exclude' = update_exclude(x', y', origin, exclude)
             /\ UNCHANGED origin
             /\ Done("remove_node")

\* Points.set_origin(x, y)
set_origin(p) ==
    LET f == find_node(x, y, p)
    IN  IF f.raised # "none"
        THEN Raise("set_origin", f.raised)
        ELSE /\ origin' = f.i
             /\ exclude' = update_exclude(x, y, origin', exclude)
             /\ UNCHANGED <<x, y>>
             /\ Done("set_origin")

\* Points.add_exclude(start, end)
add_exclude(start, end) ==
    LET c == interpolate(x, y, origin)
        s == NearestOn(c, start)
        e == NearestOn(c, end)
    IN  IF s.raised # "none" THEN Raise("add_exclude", s.raised)
        ELSE IF e.raised # "none" THEN Raise("add_exclude", e.raised)
        ELSE /\ exclude' = Append(exclude, <<s.pt, e.pt>>)
             /\ UNCHANGED <<x, y, origin>>
             /\ Done("add_exclude")

\* Points.remove_exclude(x, y): the first interval whose index range holds the
\* sample nearest to p is removed
remove_exclude(p) ==
    LET c == interpolate(x, y, origin)
        pi == argnearest(p, c.curve)
        hits == {i \in 1..Len(exclude) :
                    LET r == IndexPair(exclude[i], c.curve)
                    IN  r[1] <= pi.i /\ pi.i <= r[2]}
    IN  IF c.raised # "none" THEN Raise("remove_exclude", c.raised)
        ELSE IF pi.raised # "none" THEN Raise("remove_exclude", pi.raised)
        ELSE /\ exclude' = IF hits = {} THEN exclude
                           ELSE Pop(exclude, (CHOOSE i \in hits : \A j \in hits : i <= j) - 1)
             /\ UNCHANGED <<x, y, origin>>
             /\ Done("remove_exclude")

SimplifyExclude ==
    /\ LET r == simplify_exclude(x, y, origin, exclude)
       IN  IF r.raised # "none" THEN Raise("simplify_exclude", r.raised)
           ELSE /\ exclude' = r.exclude
                /\ UNCHANGED <<x, y, origin>>
                /\ Done("simplify_exclude")
    /\ UNCHANGED otherVars

\* Points.get_state
get_state(xs, ys, o, excl) == [x |-> xs, y |-> ys, origin |-> o, exclude |-> excl]

\* state.get(key, default)
Get(state, key, default) == IF key \in DOMAIN state THEN state[key] ELSE default

\* Faulty variant of set_state_value: the stored origin is not read back
set_state_value_no_origin(state) ==
    [x |-> Masked(state.x, NotNaN(state.x, state.y)),
     y |-> Masked(state.y, NotNaN(state.x, state.y)),
     exclude |-> Get(state, "exclude", <<>>),
     origin |-> 0]

\* Points.set_state: the fields it assigns
set_state_value(state) ==
    [x |-> Masked(state.x, NotNaN(state.x, state.y)),
     y |-> Masked(state.y, NotNaN(state.x, state.y)),
     exclude |-> Get(state, "exclude", <<>>),
     origin |-> Get(state, "origin", 0)]

set_state(name, state) ==
    LET new == set_state_value(state)
    IN  /\ x' = new.x
        /\ y' = new.y
        /\ exclude' = new.exclude
        /\ origin' = new.origin
        /\ op' = name
        /\ raised' = "none"
        /\ ret' = <<"keys", DOMAIN state>>

InterpolateCall ==
    LET c == interpolate(x, y, origin)
    IN  /\ op' = "interpolate"
        /\ raised' = c.raised
        /\ ret' = IF c.raised = "none" THEN c.curve ELSE NoValue
        /\ UNCHANGED <<x, y, origin, exclude, otherVars>>

LengthCall ==
    LET c == length(x, y, origin)
    IN  /\ op' = "length"
        /\ raised' = c.raised
        /\ ret' = c.value
        /\ UNCHANGED <<x, y, origin, exclude, otherVars>>

------------------------------------------------------------------------------
(* The Points specifications: an empty Points object and calls on it, with *)
(* arguments from small sets.  SpecPoints makes the calls that store nodes *)
(* and state, with arguments that need not be finite; SpecExclude makes    *)
(* the calls that edit nodes and exclusion intervals.                      *)

MaxNodes == 4
MaxExclude == 2

\* positions the user clicks: node positions at least 30 apart, one click 10
\* away from a node position, and clicks that are not finite
Clicks == {<<Fin(0), Fin(0)>>, <<Fin(30), Fin(0)>>, <<Fin(0), Fin(30)>>, <<Fin(30), Fin(30)>>}
NearClicks == {<<Fin(10), Fin(0)>>}
\* a click at the hit threshold from <<0, 0>>
EdgeClicks == {<<Fin(25), Fin(0)>>}
BadClicks == {<<NaN, Fin(0)>>, <<Fin(0), NInf>>}

\* the lists of pairs set_nodes is given
SetLists ==
    {<<>>,
     <<<<Fin(30), Fin(0)>>>>,
     <<<<Fin(0), Fin(0)>>, <<Fin(30), Fin(0)>>>>,
     <<<<Fin(30), Fin(30)>>, <<NaN, Fin(0)>>, <<Fin(0), NaN>>>>,
     <<<<PInf, Fin(0)>>>>,
     <<<<Fin(0), Fin(0)>>, <<Fin(30), NInf>>>>}

\* the lists of pairs in the dictionaries set_state is given
StateLists ==
    {<<>>,
     <<<<Fin(0), Fin(0)>>, <<Fin(30), Fin(0)>>>>,
     <<<<Fin(30), Fin(30)>>, <<NaN, Fin(0)>>, <<Fin(0), NaN>>>>}

StateExcludes == {<<<<<<Fin(0), Fin(0)>>, <<Fin(30), Fin(0)>>>>>>}

Xs(l) == [i \in 1..Len(l) |-> l[i][1]]
Ys(l) == [i \in 1..Len(l) |-> l[i][2]]

\* the origins a dictionary may name for a list of pairs: the indices of the list
Origins(l) == IF Len(l) = 0 THEN {0} ELSE 0..(Len(l) - 1)

\* the dictionaries set_state is given: 'exclude' and 'origin' may be missing
StateDicts ==
    UNION {
        {[x |-> Xs(l), y |-> Ys(l)]}
        \cup {[x |-> Xs(l), y |-> Ys(l), origin |-> o] : o \in Origins(l)}
        \cup {[x |-> Xs(l), y |-> Ys(l), exclude |-> e] : e \in StateExcludes}
        \cup {[x |-> Xs(l), y |-> Ys(l), origin |-> o, exclude |-> e] :
                 o \in Origins(l), e \in StateExcludes}
        : l \in StateLists}

\* Points()
InitPoints == NoPoints /\ NoPeaks /\ NoEpochs /\ NoTiles /\ NoPieces

AddNode == \E p \in Clicks \cup BadClicks :
    /\ Len(x) < MaxNodes
    /\ add_node(p)
    /\ UNCHANGED otherVars

RemoveNode == \E p \in Clicks \cup NearClicks \cup EdgeClicks :
    remove_node(p) /\ UNCHANGED otherVars

SetOrigin == \E p \in Clicks \cup NearClicks \cup EdgeClicks :
    set_origin(p) /\ UNCHANGED otherVars

SetNodes == \E l \in SetLists :
    set_nodes("set_nodes", Xs(l), Ys(l)) /\ UNCHANGED otherVars

\* Piece.clear_spiral and Piece.clear_cells: set_nodes([], [])
ClearSpiral == set_nodes("clear_spiral", <<>>, <<>>) /\ UNCHANGED otherVars

SetState == \E state \in StateDicts :
    set_state("set_state", state) /\ UNCHANGED otherVars

\* set_state(get_state()) on the object itself
RestoreState ==
    set_state("restore_state", get_state(x, y, origin, exclude)) /\ UNCHANGED otherVars

NextPoints ==
    \/ AddNode
    \/ RemoveNode
    \/ SetOrigin
    \/ SetNodes
    \/ ClearSpiral
    \/ SetState
    \/ RestoreState
    \/ InterpolateCall
    \/ LengthCall

SpecPoints == InitPoints /\ [][NextPoints]_vars

\* C2: no stored coordinate of a Points object is ever non-finite: whatever
\* set_nodes, set_state and add_node were given, every stored pair has two
\* finite coordinates.
C2_StoredCoordinatesFinite ==
    \A i \in 1..Len(x) : isfinite(x[i]) /\ isfinite(y[i])

\* C7: while a Points object holds fewer than 4 nodes, interpolate() returns
\* the empty result and length() returns NaN, and neither raises.
C7_FewNodesNoCurve ==
    Len(x) < 4 =>
        /\ op = "interpolate" => raised = "none" /\ ret = <<>>
        /\ op = "length" => raised = "none" /\ ret = <<NaN>>

\* C8: set_state(get_state()) is a round trip: when all stored coordinates
\* are finite, set_state of the dictionary get_state returns assigns the x
\* list, y list, origin and exclusion list the object has; a dictionary
\* without 'exclude' or 'origin' is accepted and leaves an empty exclusion
\* list or origin 0.
C8_StateRoundTrip ==
    /\ AllFinite(Zip(x, y)) =>
           set_state_value(get_state(x, y, origin, exclude)) =
               [x |-> x, y |-> y, exclude |-> exclude, origin |-> origin]
    /\ op = "set_state" =>
           /\ raised = "none"
           /\ "exclude" \notin ret[2] => exclude = <<>>
           /\ "origin" \notin ret[2] => origin = 0

\* the state of an object with nodes, an origin other than 0 and an exclusion
\* interval has been fed back to it
C8_Witness ==
    /\ op = "restore_state"
    /\ AllFinite(Zip(x, y))
    /\ Len(x) > 1
    /\ origin > 0
    /\ exclude # <<>>

------------------------------------------------------------------------------
(* SpecExclude: a Points object constructed with four nodes, and the calls *)
(* that edit its exclusion intervals, its origin and its first node.       *)

\* Points(x, y): the corners of a square, and four nodes on a line, which the
\* path from an inner node passes twice
NodeLists ==
    {<<<<Fin(0), Fin(0)>>, <<Fin(30), Fin(0)>>, <<Fin(30), Fin(30)>>, <<Fin(0), Fin(30)>>>>,
     <<<<Fin(0), Fin(0)>>, <<Fin(30), Fin(0)>>, <<Fin(60), Fin(0)>>, <<Fin(90), Fin(0)>>>>}

\* where the user clicks to choose the origin, to remove or add the node at
\* or near <<0, 0>>, and to mark the ends of an exclusion
OriginClicks == {<<Fin(10), Fin(0)>>, <<Fin(30), Fin(0)>>, <<Fin(60), Fin(0)>>}
ExcludeClicks == {<<Fin(0), Fin(0)>>, <<Fin(40), Fin(10)>>}

InitExclude ==
    /\ \E l \in NodeLists : x = Xs(l) /\ y = Ys(l)
    /\ origin = 0
    /\ exclude = <<>>
    /\ op = "init"
    /\ raised = "none"
    /\ ret = NoValue
    /\ NoPeaks /\ NoEpochs /\ NoTiles /\ NoPieces

PlaceNode == \E p \in {<<Fin(0), Fin(0)>>} \cup NearClicks :
    /\ Len(x) < MaxNodes
    /\ add_node(p)
    /\ UNCHANGED otherVars

DeleteNode == \E p \in NearClicks : remove_node(p) /\ UNCHANGED otherVars

PickOrigin == \E p \in OriginClicks : set_origin(p) /\ UNCHANGED otherVars

AddExclude == \E s \in ExcludeClicks, e \in ExcludeClicks :
    /\ Len(exclude) < MaxExclude
    /\ add_exclude(s, e)
    /\ UNCHANGED otherVars

RemoveExclude == \E p \in ExcludeClicks : remove_exclude(p) /\ UNCHANGED otherVars

NextExclude ==
    \/ PlaceNode
    \/ DeleteNode
    \/ PickOrigin
    \/ ClearSpiral
    \/ AddExclude
    \/ RemoveExclude
    \/ SimplifyExclude

SpecExclude == InitExclude /\ [][NextExclude]_vars

\* the samples of a curve
Samples(curve) == {curve[j] : j \in 1..Len(curve)}

\* C3: exclusion intervals are re-snapped whenever the node set changes: after
\* add_node, remove_node, set_nodes, set_state and clear_spiral every stored
\* anchor is a sample of the curve through the current nodes, and no interval
\* remains when the current nodes have no curve.
C3_ExcludeResnapped ==
    (op \in {"add_node", "remove_node", "set_nodes", "set_state", "clear_spiral"}
        /\ raised = "none") =>
        LET c == interpolate(x, y, origin)
        IN  /\ (c.raised # "none" \/ Len(c.curve) = 0) => exclude = <<>>
            /\ \A i \in 1..Len(exclude) :
                   exclude[i][1] \in Samples(c.curve) /\ exclude[i][2] \in Samples(c.curve)

\* C5: simplify_exclude is idempotent: whatever exclusion list the object
\* holds, when simplify_exclude succeeds, a second call leaves the list the
\* first call left.
C5_SimplifyIdempotent ==
    LET once == simplify_exclude(x, y, origin, exclude)
    IN  once.raised = "none" =>
            simplify_exclude(x, y, origin, once.exclude) = once

\* simplify_exclude has run on an object with a curve and left one interval
\* whose anchors differ
C5_Witness ==
    /\ op = "simplify_exclude"
    /\ raised = "none"
    /\ Len(exclude) = 1
    /\ exclude[1][1] # exclude[1][2]
    /\ Len(interpolate(x, y, origin).curve) > 0

\* C6: after simplify_exclude completes, no stored exclusion interval is
\* degenerate: the start anchor of every interval differs from its end anchor.
C6_NoDegenerateInterval ==
    (op = "simplify_exclude" /\ raised = "none") =>
        \A i \in 1..Len(exclude) : exclude[i][1] # exclude[i][2]

------------------------------------------------------------------------------
(* Bounds of the path-ordering specification.                              *)

MaxPathLen == 4

\* two points tie for nearest to <<0, 0>>, and one point is not finite
PathPoints ==
    {<<Fin(0), Fin(0)>>, <<Fin(30), Fin(0)>>, <<Fin(0), Fin(30)>>,
     <<Fin(70), Fin(0)>>, <<PInf, Fin(0)>>}

\* Points(x, y, origin): any list of points and any origin that indexes it
InitPath ==
    /\ \E nodes \in SeqsUpTo(PathPoints, MaxPathLen) :
           /\ x = [i \in 1..Len(nodes) |-> nodes[i][1]]
           /\ y = [i \in 1..Len(nodes) |-> nodes[i][2]]
           /\ origin \in (IF Len(nodes) = 0 THEN {0} ELSE 0..(Len(nodes) - 1))
    /\ exclude = <<>>
    /\ op = "init"
    /\ raised = "none"
    /\ ret = NoValue
    /\ NoPeaks /\ NoEpochs /\ NoTiles /\ NoPieces

GetNodesCall ==
    /\ op = "init"
    /\ LET r == get_nodes(x, y, origin)
       IN  /\ raised' = r.raised
           /\ ret' = r.path
    /\ op' = "get_nodes"
    /\ UNCHANGED <<x, y, origin, exclude, peaks, epochVars, tileVars, pieces>>

NextPath == GetNodesCall

SpecPath == InitPath /\ [][NextPath]_vars

\* How often point p occurs in list s
Count(s, p) == Cardinality({i \in 1..Len(s) : s[i] = p})

\* C1: get_nodes returns a permutation of the stored points: for N points
\* and an origin in 0..N-1 the path has length N and holds every stored point
\* exactly as often as the node list does; no points give the empty path and
\* one point gives the one-element path.
C1_PathIsPermutation ==
    op = "get_nodes" =>
        /\ raised = "none"
        /\ Len(ret) = Len(x)
        /\ \A p \in PathPoints : Count(ret, p) = Count(Zip(x, y), p)
        /\ (Len(x) = 0 => ret = <<>>)
        /\ (Len(x) = 1 => ret = <<<<x[1], y[1]>>>>)

\* a path through the most points the bound allows, from an origin other than
\* the first point, has been ordered
C1_Witness ==
    /\ op = "get_nodes"
    /\ Len(x) = MaxPathLen
    /\ origin > 0
    /\ ret # Zip(x, y)

------------------------------------------------------------------------------
(* SpecEpochs: smooth_epochs applied to any short list of intervals        *)

MaxEpochs == 3
MaxIndex == 3

\* [start, end] with start <= end
Intervals == {<<s, e>> : s \in 0..MaxIndex, e \in 0..MaxIndex} \cap
             {iv \in (0..MaxIndex) \X (0..MaxIndex) : iv[1] <= iv[2]}

InitEpochs ==
    /\ epochsArg \in SeqsUpTo(Intervals, MaxEpochs)
    /\ epochsRet = NoValue
    /\ NoPoints /\ NoPeaks /\ NoTiles /\ NoPieces

Smooth ==
    /\ epochsRet = NoValue
    /\ epochsRet' = smooth_epochs(epochsArg)
    /\ UNCHANGED <<epochsArg, pointVars, peaks, tileVars, pieces>>

NextEpochs == Smooth

SpecEpochs == InitEpochs /\ [][NextEpochs]_vars

\* the integers the intervals of a list cover
Covered(l) == UNION {l[i][1]..l[i][2] : i \in 1..Len(l)}

\* C4: smooth_epochs merges correctly: the result is sorted by start, each
\* interval ends before the next one starts (overlapping and touching inputs
\* end up in one run), and the result covers exactly the integers the input
\* covers; [[0,5],[3,8],[10,12]] gives [[0,8],[10,12]].
C4_SmoothEpochsMerges ==
    /\ epochsRet # NoValue =>
        /\ \A i \in 1..Len(epochsRet) : epochsRet[i][1] <= epochsRet[i][2]
        /\ \A i \in 1..(Len(epochsRet) - 1) : epochsRet[i][2] < epochsRet[i + 1][1]
        /\ Covered(epochsRet) = Covered(epochsArg)
    /\ smooth_epochs(<<<<0, 5>>, <<3, 8>>, <<10, 12>>>>) = <<<<0, 8>>, <<10, 12>>>>

\* a list given out of order, of which two intervals were merged and one was not
C4_Witness ==
    /\ epochsRet # NoValue
    /\ Len(epochsArg) = 3
    /\ epochsArg[1][1] > epochsArg[2][1]
    /\ Len(epochsRet) = 2

------------------------------------------------------------------------------
(* Tile and Piece.merge_tiles.  Physical coordinates and voxel sizes are   *)
(* whole numbers of one unit; a quotient of two of them is kept exact.     *)

\* np.floor(a / b), np.ceil(a / b) and np.round(a / b) for b > 0; np.round
\* rounds a half to the even neighbour
Floor(a, b) == a \div b
Ceil(a, b) == -((-a) \div b)
Round(a, b) ==
    LET q == a \div b
        r == a % b
    IN  IF 2 * r < b THEN q
        ELSE IF 2 * r > b THEN q + 1
        ELSE IF q % 2 = 0 THEN q ELSE q + 1

MinOf(S) == CHOOSE m \in S : \A n \in S : m <= n
MaxOf(S) == CHOOSE m \in S : \A n \in S : m >= n

\* the X, Y and Z axes of an image
Axes == 1..3

\* the 0-based voxel indices of an image of the given shape
Box(shape) == (0..(shape[1] - 1)) \X (0..(shape[2] - 1)) \X (0..(shape[3] - 1))

\* an image of one value, the stand-in for np.full
Full(shape, n_channels, value) ==
    [shape |-> shape, n_channels |-> n_channels, data |-> [idx \in Box(shape) |-> value]]

\* Tile.__init__: extent = [xlb, xub, ylb, yub, zlb, zub]
TileInit(info, image) ==
    [info |-> info,
     image |-> image,
     extent |-> [k \in 1..6 |->
                    LET a == (k + 1) \div 2
                    IN  IF k % 2 = 1 THEN info.lower[a]
                        ELSE info.lower[a] + image.shape[a] * info.voxel_size[a]]]

\* extent[::2] and extent[1::2]
ExtentLower(t) == [a \in Axes |-> t.extent[2 * a - 1]]
ExtentUpper(t) == [a \in Axes |-> t.extent[2 * a]]

\* the keys of info other than 'lower' and 'voxel_size'
ExtraKeys(info) == DOMAIN info \ {"lower", "voxel_size"}

\* merged_image[s] = tile.image for the slices s = lb:ub, which numpy clips to
\* the merged image: where the slice lies on each axis, and whether the tile
\* image can be assigned to it (its length on the axis is that of the slice,
\* or 1)
SliceOf(lb, ub, n) == [lo |-> IF lb < n THEN lb ELSE n, hi |-> IF ub < n THEN ub ELSE n]

Fits(t, tile_lb, shape) ==
    \A a \in Axes :
        LET sl == SliceOf(tile_lb[a], tile_lb[a] + t.image.shape[a], shape[a])
        IN  t.image.shape[a] = sl.hi - sl.lo \/ t.image.shape[a] = 1

Inside(t, tile_lb, shape, idx) ==
    \A a \in Axes :
        LET sl == SliceOf(tile_lb[a], tile_lb[a] + t.image.shape[a], shape[a])
        IN  sl.lo <= idx[a] /\ idx[a] < sl.hi

\* the index in the tile image of the merged voxel idx
SourceIndex(t, tile_lb, idx) ==
    [a \in Axes |-> IF t.image.shape[a] = 1 THEN 0 ELSE idx[a] - tile_lb[a]]

\* Faulty variant of PasteTile: a voxel an earlier tile wrote is kept
PasteTileUnder(image, t, tile_lb) ==
    [image EXCEPT !.data =
        [idx \in Box(image.shape) |->
            IF Inside(t, tile_lb, image.shape, idx) /\ image.data[idx] = 0
            THEN t.image.data[SourceIndex(t, tile_lb, idx)]
            ELSE image.data[idx]]]

\* merged_image[s] = tile.image for one tile that fits
PasteTile(image, t, tile_lb) ==
    [image EXCEPT !.data =
        [idx \in Box(image.shape) |->
            IF Inside(t, tile_lb, image.shape, idx)
            THEN t.image.data[SourceIndex(t, tile_lb, idx)]
            ELSE image.data[idx]]]

\* the loop over self.tiles, from the k-th tile on: each tile is written over
\* what the tiles before it wrote; a tile that cannot be assigned to its
\* slice raises ValueError
RECURSIVE PasteTiles(_, _, _, _, _)
PasteTiles(ts, k, merged_lb, voxel_size, image) ==
    IF k > Len(ts) THEN [raised |-> "none", image |-> image]
    ELSE LET tile_lb == [a \in Axes |->
                            Round(ExtentLower(ts[k])[a] - merged_lb[a], voxel_size[a])]
         IN  IF ~Fits(ts[k], tile_lb, image.shape)
             THEN [raised |-> "ValueError", image |-> image]
             ELSE PasteTiles(ts, k + 1, merged_lb, voxel_size,
                             PasteTile(image, ts[k], tile_lb))

\* the message of the ValueError raised for a key of info that differs
CannotMerge(key) == <<"Cannot merge tiles.", key, "differs.">>

\* Faulty variant of MergeInfo: the values of the first tile are taken
\* without comparing them with those of the other tiles
MergeInfoFirstWins(ts, merged_lb, voxel_size) ==
    [raised |-> "none", message |-> NoValue,
     info |-> [key \in {"lower", "voxel_size"} \cup ExtraKeys(ts[1].info) |->
                  IF key = "lower" THEN merged_lb
                  ELSE IF key = "voxel_size" THEN voxel_size
                  ELSE ts[1].info[key]]]

\* the info of the merged tile: 'lower' and 'voxel_size', and every other key
\* of the first tile, whose value every other tile must share.  A later tile
\* without the key raises KeyError; a key that differs raises ValueError,
\* and of several such keys the set order picks one.
MergeInfo(ts, merged_lb, voxel_size) ==
    LET t_base == ts[1]
        extra_keys == ExtraKeys(t_base.info)
        missing == {key \in extra_keys : \E k \in 2..Len(ts) : key \notin DOMAIN ts[k].info}
        differing == {key \in extra_keys \ missing :
                         \E k \in 2..Len(ts) : t_base.info[key] # ts[k].info[key]}
    IN  IF missing # {}
        THEN [raised |-> "KeyError", message |-> NoValue, info |-> NoValue]
        ELSE IF differing # {}
        THEN [raised |-> "ValueError",
              message |-> CannotMerge(CHOOSE key \in differing : TRUE),
              info |-> NoValue]
        ELSE [raised |-> "none", message |-> NoValue,
              info |-> [key \in {"lower", "voxel_size"} \cup extra_keys |->
                           IF key = "lower" THEN merged_lb
                           ELSE IF key = "voxel_size" THEN voxel_size
                           ELSE t_base.info[key]]]

\* Piece.merge_tiles: the merged Tile, or the exception raised and its message
merge_tiles(ts) ==
    IF Len(ts) = 0 THEN [raised |-> "ValueError", message |-> NoValue, tile |-> NoValue]
    ELSE
    LET merged_lb == [a \in Axes |-> MinOf({ExtentLower(ts[k])[a] : k \in 1..Len(ts)})]
        merged_ub == [a \in Axes |-> MaxOf({ExtentUpper(ts[k])[a] : k \in 1..Len(ts)})]
        voxel_size == ts[1].info.voxel_size
        lb_pixels == [a \in Axes |-> Floor(merged_lb[a], voxel_size[a])]
        ub_pixels == [a \in Axes |-> Ceil(merged_ub[a], voxel_size[a])]
        extent_pixels == [a \in Axes |-> ub_pixels[a] - lb_pixels[a]]
    IN  IF \E a \in Axes : extent_pixels[a] < 0
        THEN \* np.full of a negative dimension
             [raised |-> "ValueError", message |-> NoValue, tile |-> NoValue]
        ELSE LET pasted == PasteTiles(ts, 1, merged_lb, voxel_size,
                                      Full(extent_pixels, ts[1].image.n_channels, 0))
                 merged_info == MergeInfo(ts, merged_lb, voxel_size)
             IN  IF pasted.raised # "none"
                 THEN [raised |-> pasted.raised, message |-> NoValue, tile |-> NoValue]
                 ELSE IF merged_info.raised # "none"
                 THEN [raised |-> merged_info.raised, message |-> merged_info.message,
                       tile |-> NoValue]
                 ELSE [raised |-> "none", message |-> NoValue,
                       tile |-> TileInit(merged_info.info, pasted.image)]

------------------------------------------------------------------------------
(* SpecTiles: a Piece of one or more tiles that share a voxel size, merged *)

MaxTiles == 2

\* (x, y, z) voxel sizes, lower corners and image shapes of the tiles; not
\* every lower corner is a whole number of voxels
VoxelSizes == {<<2, 2, 2>>}
TileLowers == {<<0, 0, 0>>, <<1, 0, 0>>, <<3, 2, 0>>, <<-3, 0, 0>>}
TileShapes == {<<1, 1, 1>>, <<2, 1, 1>>}
TileChannels == {"DAPI", "MyosinVIIa"}

\* the tiles Tile.from_filename can load; a tile's image is filled with value
TileChoices(value) ==
    {TileInit([lower |-> l, voxel_size |-> v, channels |-> c, reader |-> "lif"],
              Full(sh, 1, value)) :
        l \in TileLowers, v \in VoxelSizes, sh \in TileShapes, c \in TileChannels}

\* the lists of 1..n tiles, the k-th filled with value k
RECURSIVE TileLists(_)
TileLists(n) ==
    IF n = 0 THEN {<<>>}
    ELSE LET shorter == TileLists(n - 1)
         IN  shorter \cup
             {Append(l, t) : l \in {s \in shorter : Len(s) = n - 1}, t \in TileChoices(n)}

\* Piece(tiles, path, piece)
InitTiles ==
    /\ tiles \in TileLists(MaxTiles) \ {<<>>}
    /\ merged = NoValue
    /\ NoPoints /\ NoPeaks /\ NoEpochs /\ NoPieces

MergeTiles ==
    /\ op = "init"
    /\ LET m == merge_tiles(tiles)
       IN  /\ raised' = m.raised
           /\ merged' = m.tile
           /\ ret' = m.message
    /\ op' = "merge_tiles"
    /\ UNCHANGED <<x, y, origin, exclude, peaks, epochVars, tiles, pieces>>

NextTiles == MergeTiles

SpecTiles == InitTiles /\ [][NextTiles]_vars

\* C10: merge_tiles is extent-covering: on each axis the extent of the merged
\* tile is [floor(min source lower / voxel) * voxel,
\* ceil(max source upper / voxel) * voxel], also when the smallest source
\* lower is not a whole number of voxels.
C10_MergedExtentCovers ==
    (op = "merge_tiles" /\ raised = "none") =>
        \A a \in Axes :
            LET v == tiles[1].info.voxel_size[a]
                lower == MinOf({ExtentLower(tiles[k])[a] : k \in 1..Len(tiles)})
                upper == MaxOf({ExtentUpper(tiles[k])[a] : k \in 1..Len(tiles)})
            IN  /\ ExtentLower(merged)[a] = Floor(lower, v) * v
                /\ ExtentUpper(merged)[a] = Ceil(upper, v) * v

\* the offset in pixels of the k-th tile in the merged image, and the shape of
\* the merged image, on axis a
OffsetOf(k, a) ==
    Round(ExtentLower(tiles[k])[a]
              - MinOf({ExtentLower(tiles[j])[a] : j \in 1..Len(tiles)}),
          tiles[1].info.voxel_size[a])
MergedShape(a) ==
    Ceil(MaxOf({ExtentUpper(tiles[j])[a] : j \in 1..Len(tiles)}), tiles[1].info.voxel_size[a])
        - Floor(MinOf({ExtentLower(tiles[j])[a] : j \in 1..Len(tiles)}),
                tiles[1].info.voxel_size[a])

\* the tiles whose sub-block covers voxel idx of the merged image
Covering(idx) ==
    {k \in 1..Len(tiles) :
        \A a \in Axes : OffsetOf(k, a) <= idx[a]
                        /\ idx[a] < OffsetOf(k, a) + tiles[k].image.shape[a]}

\* C11: merge_tiles resolves overlap by last writer wins over a zero
\* background: the sub-block of every tile (offset rounded to the nearest
\* pixel, size the shape of the tile's array) lies inside the merged array,
\* so that writing it never fails; every merged voxel holds the value of the
\* last tile, in the order of self.tiles, whose sub-block covers it, or 0 when
\* none does; the tiles themselves are left as they were.
MergedLastWriterWins ==
    /\ \A k \in 1..Len(tiles) : \A a \in Axes :
           0 <= OffsetOf(k, a) /\ OffsetOf(k, a) + tiles[k].image.shape[a] <= MergedShape(a)
    /\ raised # "none" =>
           \E k \in 2..Len(tiles) : tiles[k].info.channels # tiles[1].info.channels
    /\ raised = "none" =>
           /\ merged.image.shape = [a \in Axes |-> MergedShape(a)]
           /\ \A idx \in Box(merged.image.shape) :
                  merged.image.data[idx] =
                      IF Covering(idx) = {} THEN 0
                      ELSE LET k == MaxOf(Covering(idx))
                           IN  tiles[k].image.data[[a \in Axes |-> idx[a] - OffsetOf(k, a)]]
C11_LastWriterWins ==
    [][op' = "merge_tiles" => (MergedLastWriterWins' /\ tiles' = tiles)]_vars

\* two tiles that overlap were merged, and a voxel of the merged image lies
\* in neither
C11_Witness ==
    /\ op = "merge_tiles"
    /\ raised = "none"
    /\ \E idx \in Box(merged.image.shape) : Covering(idx) = {1, 2}
    /\ \E idx \in Box(merged.image.shape) : Covering(idx) = {}

\* the keys of info, other than 'lower' and 'voxel_size', that two of the
\* tiles give different values
ConflictKeys ==
    {key \in UNION {ExtraKeys(tiles[k].info) : k \in 1..Len(tiles)} :
        \E j, k \in 1..Len(tiles) :
            /\ key \in DOMAIN tiles[j].info
            /\ key \in DOMAIN tiles[k].info
            /\ tiles[j].info[key] # tiles[k].info[key]}

\* C12: the metadata of a merge is all or nothing: when a key of info other
\* than 'lower' and 'voxel_size' has different values in two of the tiles,
\* merge_tiles raises the 'Cannot merge tiles' ValueError that names such a
\* key and returns no tile; otherwise every such key is in the info of the
\* merged tile with the value all the tiles share.
C12_MetadataAllOrNothing ==
    op = "merge_tiles" =>
        IF ConflictKeys # {}
        THEN /\ raised = "ValueError"
             /\ \E key \in ConflictKeys : ret = <<"Cannot merge tiles.", key, "differs.">>
             /\ merged = NoValue
        ELSE /\ raised = "none"
             /\ \A k \in 1..Len(tiles) : \A key \in ExtraKeys(tiles[k].info) :
                    /\ key \in DOMAIN merged.info
                    /\ merged.info[key] = tiles[k].info[key]

\* a merge of two tiles whose channels differ and whose reader is the same
\* was refused
C12_Witness ==
    /\ op = "merge_tiles"
    /\ Len(tiles) = 2
    /\ tiles[1].info.channels # tiles[2].info.channels
    /\ tiles[1].info.reader = tiles[2].info.reader
    /\ raised = "ValueError"

------------------------------------------------------------------------------
(* Piece.guess_cells and Piece.clear_cells.  In SpecCells the Points        *)
(* object of the state is cells[cell_type] of a Piece.                      *)

\* the largest k with k * k <= n
Isqrt(n) == CHOOSE k \in 0..n : k * k <= n /\ n < (k + 1) * (k + 1)

\* np.median of a non-empty list of numbers (floored when it falls between)
Median(l) ==
    LET sorted == SortSeq(l, LAMBDA a, b : a < b)
        n == Len(l)
    IN  IF n % 2 = 1 THEN sorted[(n + 1) \div 2]
        ELSE (sorted[n \div 2] + sorted[n \div 2 + 1]) \div 2

\* the local maxima scipy's find_peaks reports, as 0-based indices in
\* ascending order: the middle (rounded down) of every run of equal samples
\* that is higher than the sample before it and the sample after it.  The
\* first and the last sample are never reported.
LocalMaxima(i) ==
    LET n == Len(i)
        IsPeak(m) == \E l \in 2..(n - 1), r \in 2..(n - 1) :
            /\ l <= r
            /\ m = (l - 1 + r - 1) \div 2
            /\ \A k \in l..r : i[k] = i[l]
            /\ i[l - 1] < i[l]
            /\ i[r + 1] < i[r]
        F[m \in 0..n] ==
            IF m = 0 THEN <<>>
            ELSE IF IsPeak(m - 1) THEN Append(F[m - 1], m - 1) ELSE F[m - 1]
    IN  F[n]

\* util.find_nuclei: the indices of the peaks of trace i sampled along curve.
\* find_peaks raises ValueError for a distance below 1; for a distance of 1 or
\* 2 it keeps every local maximum, as two of them are never adjacent samples.
find_nuclei(curve, i, spacing) ==
    LET step(j) == Isqrt(Dist2(curve[j + 1], curve[j]).v)
        xy_delta == Median([j \in 1..(Len(curve) - 1) |-> step(j)])
        distance == Floor(spacing, xy_delta)
    IN  IF distance < 1 THEN [raised |-> "ValueError", p |-> <<>>]
        ELSE [raised |-> "none", p |-> LocalMaxima(i)]

\* Tile.to_indices of one coordinate: (point - lower) / voxel_size, kept as
\* its numerator over voxel_size
to_indices(t, a, point) == point - t.info.lower[a]

\* Tile.to_coords of one index given as a numerator over voxel_size
to_coords(t, a, index) == index + t.info.lower[a]

\* Piece.guess_cells, for the spiral, the intensity trace tile.map samples
\* along it and the shift (in voxels) find_centroid finds for the peaks
guess_cells(spiral, i, spacing, shift) ==
    \E m \in {merge_tiles(tiles)}, c \in {interpolate(Xs(spiral), Ys(spiral), 0)} :
        IF m.raised # "none"
        THEN Raise("guess_cells", m.raised) /\ peaks' = NoValue
        ELSE IF c.raised # "none"
        THEN Raise("guess_cells", c.raised) /\ peaks' = NoValue
        ELSE IF Len(c.curve) = 0
        THEN \* tile.map: expand_path multiplies the empty list y by 1j
             Raise("guess_cells", "TypeError") /\ peaks' = NoValue
        ELSE \E n \in {find_nuclei(c.curve, i, spacing)} :
            LET tile == m.tile
                xn == [k \in 1..Len(n.p) |-> c.curve[n.p[k] + 1][1].v]
                yn == [k \in 1..Len(n.p) |-> c.curve[n.p[k] + 1][2].v]
                xnic == [k \in 1..Len(xn) |->
                            to_indices(tile, 1, xn[k]) + shift[1] * tile.info.voxel_size[1]]
                ynic == [k \in 1..Len(yn) |->
                            to_indices(tile, 2, yn[k]) + shift[2] * tile.info.voxel_size[2]]
                xnc == [k \in 1..Len(xnic) |-> Fin(to_coords(tile, 1, xnic[k]))]
                ync == [k \in 1..Len(ynic) |-> Fin(to_coords(tile, 2, ynic[k]))]
            IN  IF n.raised # "none"
                THEN Raise("guess_cells", n.raised) /\ peaks' = NoValue
                ELSE IF Len(xnc) = 0
                THEN \* np.max(np.abs(xnc - xn)), an argument of log.info, of
                     \* no values
                     Raise("guess_cells", "ValueError") /\ peaks' = n.p
                ELSE /\ StoreNodes(xnc, ync)
                     /\ op' = "guess_cells"
                     /\ raised' = "none"
                     /\ ret' = Len(xnc)
                     /\ peaks' = n.p

\* the spirals of the piece: none drawn, or one of NodeLists
Spirals == {<<>>} \cup NodeLists

\* intensity traces along the 7 samples of a spiral: no signal, one peak,
\* three peaks, a peak two samples wide, a ramp, and signal at both ends only
Traces ==
    {<<0, 0, 0, 0, 0, 0, 0>>,
     <<0, 1, 0, 0, 0, 0, 0>>,
     <<0, 1, 0, 2, 0, 1, 0>>,
     <<0, 0, 0, 2, 2, 0, 0>>,
     <<0, 1, 2, 3, 4, 5, 6>>,
     <<3, 0, 0, 0, 0, 0, 3>>}

\* the spacing of cells asked for: 10, 15 or 30 units
Spacings == {10, 15, 30}

\* the shift of the centroid, in voxels
Shifts == {<<0, 0>>, <<1, 2>>}

\* the tiles of the piece: one tile, or two tiles of different channels
CellTiles ==
    {<<TileInit([lower |-> <<-3, 0, 0>>, voxel_size |-> <<2, 2, 2>>, channels |-> "DAPI"],
                Full(<<2, 1, 1>>, 1, 1))>>,
     <<TileInit([lower |-> <<0, 0, 0>>, voxel_size |-> <<2, 2, 2>>, channels |-> "DAPI"],
                Full(<<1, 1, 1>>, 1, 1)),
       TileInit([lower |-> <<1, 0, 0>>, voxel_size |-> <<2, 2, 2>>, channels |-> "MyosinVIIa"],
                Full(<<1, 1, 1>>, 1, 2))>>}

\* Piece(tiles, path, piece): no cells yet
InitCells ==
    /\ tiles \in CellTiles
    /\ merged = NoValue
    /\ NoPoints /\ NoPeaks /\ NoEpochs /\ NoPieces

\* the spiral is whatever the user has drawn by the time of the call
GuessCells == \E spiral \in Spirals, i \in Traces, spacing \in Spacings, shift \in Shifts :
    guess_cells(spiral, i, spacing, shift) /\ UNCHANGED <<epochVars, tileVars, pieces>>

\* Piece.clear_cells: set_nodes([], [])
ClearCells == set_nodes("clear_cells", <<>>, <<>>) /\ UNCHANGED otherVars

\* PlaceNode: a cell the user adds by hand
NextCells ==
    \/ GuessCells
    \/ ClearCells
    \/ PlaceNode

SpecCells == InitCells /\ [][NextCells]_vars

\* C9: guess_cells treats zero detected peaks as a normal outcome: when the
\* trace has no peak, guess_cells does not raise, returns 0 and leaves the
\* cell point set empty, whatever it held before.
C9_ZeroPeaksIsNormal ==
    (op = "guess_cells" /\ peaks = <<>>) =>
        /\ raised = "none"
        /\ ret = 0
        /\ x = <<>>
        /\ y = <<>>

------------------------------------------------------------------------------
(* Cochlea.make_frequency_map.  Lengths are whole numbers of one unit (the  *)
(* spirals of SpecCochlea have samples a whole number of units apart);     *)
(* a normalized distance and a frequency are kept as exact fractions.      *)

\* np.sqrt(dx ** 2 + dy ** 2) of two whole numbers (floored)
Hypot(dx, dy) ==
    LET n == dx * dx + dy * dy
        bound == (IF dx < 0 THEN -dx ELSE dx) + (IF dy < 0 THEN -dy ELSE dy)
    IN  CHOOSE k \in 0..bound : k * k <= n /\ n < (k + 1) * (k + 1)

\* (10 ** (p * 0.92) - 0.680) * 9.8 kHz at p = 0, 1/4, 1/2, 3/4 and 1, in Hz
PlaceHz == <<3136, 9979, 21600, 41334, 74849>>

\* m * (10 ** ((n / m) * 0.92) - 0.680) * 9.8 for 0 <= n <= m, in Hz: the
\* closed form is replaced by the straight lines through the values of
\* PlaceHz, which rise with n / m as it does
Place(n, m) ==
    LET G == Len(PlaceHz) - 1
        k == IF n = m THEN G - 1 ELSE (n * G) \div m
    IN  PlaceHz[k + 1] * m + (PlaceHz[k + 2] - PlaceHz[k + 1]) * (n * G - k * m)

\* Faulty variant of freq_fn: the distance is taken from the other end
freq_fn_from_apex(n, m) == Place(n, m)

\* freq_fn['mouse'](n / m) * m: the argument of the power is 1 - d
freq_fn(n, m) == Place(m - n, m)

\* psiaudio's octave_space, which is not code of this repository, for a step
\* of whole octaves: 2 ** lo, ..., 2 ** hi kHz, in Hz
octave_space(lo, hi) == [k \in 1..(hi - lo + 1) |-> (2 ^ (lo + k - 1)) * 1000]

\* the rows of one piece: the samples of its spiral, shifted so that the
\* first lies on (xo, yo)
PieceRows(curve, k, direction, xo, yo) ==
    [j \in 1..Len(curve) |->
        [piece |-> k,
         i |-> <<j - 1, Len(curve)>>,
         direction |-> direction,
         x |-> curve[j][1].v - (curve[1][1].v - xo),
         y |-> curve[j][2].v - (curve[1][2].v - yo),
         x_orig |-> curve[j][1].v,
         y_orig |-> curve[j][2].v]]

\* Faulty variant of Trace: every piece is left where it was drawn
RECURSIVE TraceUnshifted(_, _, _, _, _, _)
TraceUnshifted(ps, directions, k, xo, yo, rows) ==
    IF k > Len(ps) THEN [raised |-> "none", rows |-> rows]
    ELSE LET c == interpolate(ps[k].x, ps[k].y, ps[k].origin)
         IN  IF c.raised # "none" THEN [raised |-> c.raised, rows |-> <<>>]
             ELSE IF Len(c.curve) = 0 \/ directions[k].raised # "none"
             THEN [raised |-> "ValueError", rows |-> <<>>]
             ELSE TraceUnshifted(ps, directions, k + 1, 0, 0,
                      rows \o PieceRows(c.curve, k, directions[k].value,
                                        c.curve[1][1].v, c.curve[1][2].v))

\* the loop over self.pieces, from the k-th piece on: interpolate may raise,
\* an empty curve raises ValueError, and so does a spiral whose direction
\* cannot be determined; the next piece starts where this one ends
RECURSIVE Trace(_, _, _, _, _, _)
Trace(ps, directions, k, xo, yo, rows) ==
    IF k > Len(ps) THEN [raised |-> "none", rows |-> rows]
    ELSE LET c == interpolate(ps[k].x, ps[k].y, ps[k].origin)
         IN  IF c.raised # "none" THEN [raised |-> c.raised, rows |-> <<>>]
             ELSE IF Len(c.curve) = 0 \/ directions[k].raised # "none"
             THEN [raised |-> "ValueError", rows |-> <<>>]
             ELSE LET new == PieceRows(c.curve, k, directions[k].value, xo, yo)
                  IN  Trace(ps, directions, k + 1,
                            new[Len(new)].x, new[Len(new)].y, rows \o new)

\* np.sqrt(x.diff() ** 2 + y.diff() ** 2).cumsum() with the first value, which
\* is NaN, filled with 0: the distances from the j-th row on, given those
\* before it
RECURSIVE CumulativeDistance(_, _, _)
CumulativeDistance(rows, j, cum) ==
    IF j > Len(rows) THEN cum
    ELSE IF j = 1 THEN CumulativeDistance(rows, 2, <<0>>)
    ELSE CumulativeDistance(rows, j + 1,
             Append(cum, cum[j - 1] + Hypot(rows[j].x - rows[j - 1].x,
                                            rows[j].y - rows[j - 1].y)))

\* Series.idxmin: the 0-based index of the first smallest value
idxmin(values) ==
    (CHOOSE i \in 1..Len(values) :
        /\ \A j \in 1..Len(values) : values[i] <= values[j]
        /\ \A j \in 1..(i - 1) : values[j] > values[i]) - 1

Abs(n) == IF n < 0 THEN -n ELSE n

\* Cochlea.make_frequency_map for the spirals ps, given what s.direction()
\* returns for each and the requested frequencies: the table results and the
\* dictionary info, or the exception raised.  distance_mm is in thousandths;
\* distance_norm and frequency are <<numerator, denominator>>.
make_frequency_map(ps, directions, freqs) ==
    LET t == Trace(ps, directions, 1, 0, 0, <<>>)
    IN  IF t.raised # "none"
        THEN [raised |-> t.raised, results |-> NoValue, info |-> NoValue]
        ELSE IF Len(t.rows) = 0
        THEN \* pd.concat of no tables
             [raised |-> "ValueError", results |-> NoValue, info |-> NoValue]
        ELSE
        LET cum == CumulativeDistance(t.rows, 1, <<>>)
            max == MaxOf({cum[j] : j \in 1..Len(cum)})
        IN  IF max = 0
            THEN \* every frequency is NaN, and idxmin then gives no row label
                 [raised |-> IF Len(freqs) = 0 THEN "none" ELSE "KeyError",
                  results |-> NoValue, info |-> NoValue]
            ELSE
            LET results == [j \in 1..Len(t.rows) |->
                               [piece |-> t.rows[j].piece,
                                i |-> t.rows[j].i,
                                direction |-> t.rows[j].direction,
                                x |-> t.rows[j].x,
                                y |-> t.rows[j].y,
                                x_orig |-> t.rows[j].x_orig,
                                y_orig |-> t.rows[j].y_orig,
                                distance_mm |-> cum[j],
                                distance_norm |-> <<cum[j], max>>,
                                frequency |-> <<freq_fn(cum[j], max), max>>]]
            IN  [raised |-> "none",
                 results |-> results,
                 info |-> [freq \in {freqs[k] : k \in 1..Len(freqs)} |->
                              results[idxmin([j \in 1..Len(results) |->
                                  Abs(results[j].frequency[1] - freq * max)]) + 1]]]

------------------------------------------------------------------------------
(* SpecCochlea: a Cochlea of one or more pieces, each with the spiral the  *)
(* user drew on it, mapped to frequency                                    *)

MaxPieces == 2

\* the spirals: a straight run and a bent one, each begun at either end, and
\* one of three nodes, which has no curve
SpiralNodes ==
    {<<<<Fin(0), Fin(0)>>, <<Fin(40), Fin(0)>>, <<Fin(80), Fin(0)>>, <<Fin(120), Fin(0)>>>>,
     <<<<Fin(0), Fin(0)>>, <<Fin(30), Fin(40)>>, <<Fin(60), Fin(80)>>, <<Fin(60), Fin(120)>>>>}
ShortSpiral == <<<<Fin(0), Fin(0)>>, <<Fin(40), Fin(0)>>, <<Fin(80), Fin(0)>>>>

PieceSpirals ==
    {[x |-> Xs(l), y |-> Ys(l), origin |-> o] : l \in SpiralNodes, o \in {0, 3}}
        \cup {[x |-> Xs(ShortSpiral), y |-> Ys(ShortSpiral), origin |-> 0]}

\* the lists of 1..n spirals
RECURSIVE PieceLists(_)
PieceLists(n) ==
    IF n = 0 THEN {<<>>}
    ELSE LET shorter == PieceLists(n - 1)
         IN  shorter \cup
             {Append(l, sp) : l \in {q \in shorter : Len(q) = n - 1}, sp \in PieceSpirals}

\* what util.arc_direction gives for a spiral: its sweep, found by a numerical
\* search of scipy for the centre of the arc, or ValueError
ArcDirections ==
    {[raised |-> "none", value |-> -1], [raised |-> "none", value |-> 1],
     [raised |-> "ValueError", value |-> 0]}

\* freq_start and freq_end as powers of two, in kHz
FreqStarts == {2, 3}
FreqEnds == {4, 6}

\* Cochlea(pieces, path)
InitCochlea ==
    /\ pieces \in PieceLists(MaxPieces) \ {<<>>}
    /\ NoPoints /\ NoPeaks /\ NoEpochs /\ NoTiles

MakeFrequencyMap ==
    /\ op = "init"
    /\ \E lo \in FreqStarts, hi \in FreqEnds, directions \in [1..Len(pieces) -> ArcDirections] :
         \E m \in {make_frequency_map(pieces, directions, octave_space(lo, hi))} :
            /\ raised' = m.raised
            /\ ret' = [results |-> m.results, info |-> m.info]
    /\ op' = "make_frequency_map"
    /\ UNCHANGED <<x, y, origin, exclude, peaks, epochVars, tileVars, pieces>>

NextCochlea == MakeFrequencyMap

SpecCochlea == InitCochlea /\ [][NextCochlea]_vars

\* the distance_norm of the row returned for freq is at most (Le) or at least
\* that of the row returned for another
NormLe(a, b) == a[1] * b[2] <= b[1] * a[2]

\* C13 as stated: for requested frequencies f1 < f2 the distance_norm of the
\* row returned for f2 is greater than or equal to that of the row returned
\* for f1.
C13_DistanceRisesWithFrequency ==
    (op = "make_frequency_map" /\ raised = "none") =>
        \A f1, f2 \in DOMAIN ret.info :
            f1 < f2 => NormLe(ret.info[f1].distance_norm, ret.info[f2].distance_norm)

\* C13, amended: make_frequency_map is monotone in the requested frequency
\* the other way round: the place-frequency function falls with distance, so
\* for requested frequencies f1 < f2 the distance_norm of the row returned for
\* f2 is less than or equal to that of the row returned for f1.
C13_DistanceFallsWithFrequency ==
    (op = "make_frequency_map" /\ raised = "none") =>
        \A f1, f2 \in DOMAIN ret.info :
            f1 < f2 => NormLe(ret.info[f2].distance_norm, ret.info[f1].distance_norm)

\* a map was made in which two requested frequencies got different rows
C13_Witness ==
    /\ op = "make_frequency_map"
    /\ raised = "none"
    /\ \E f1, f2 \in DOMAIN ret.info :
           f1 < f2 /\ ret.info[f1].distance_norm # ret.info[f2].distance_norm

\* C14: make_frequency_map builds one continuous trace: where one piece ends
\* and the next begins, the first shifted sample of the later piece is the
\* last shifted sample of the earlier one; the first sample of the trace has
\* cumulative distance 0; the cumulative distance never falls along the
\* trace; the normalized distance lies in [0, 1] and is 1 somewhere.
C14_ContinuousTrace ==
    (op = "make_frequency_map" /\ raised = "none") =>
        LET rows == ret.results
        IN  /\ \A j \in 1..(Len(rows) - 1) :
                   /\ rows[j].piece # rows[j + 1].piece =>
                          rows[j + 1].x = rows[j].x /\ rows[j + 1].y = rows[j].y
                   /\ rows[j].distance_mm <= rows[j + 1].distance_mm
            /\ rows[1].distance_mm = 0
            /\ \A j \in 1..Len(rows) :
                   /\ rows[j].distance_norm[2] > 0
                   /\ 0 <= rows[j].distance_norm[1]
                   /\ rows[j].distance_norm[1] <= rows[j].distance_norm[2]
            /\ \E j \in 1..Len(rows) : rows[j].distance_norm[1] = rows[j].distance_norm[2]

\* a map was made of two pieces, the second of which had to be moved to
\* begin where the first ends
C14_Witness ==
    /\ op = "make_frequency_map"
    /\ raised = "none"
    /\ Len(pieces) = 2
    /\ \E j \in 1..Len(ret.results) :
           /\ ret.results[j].piece = 2
           /\ ret.results[j].x # ret.results[j].x_orig

------------------------------------------------------------------------------
(* Piece.from_path, Tile.center, Tile.get_state and Tile.set_state         *)

\* np.pad(t.image, [(0, 0), (0, 0), (pb, pt), (0, 0)]): pb planes of zeros
\* below and pt above along z
PadZ(image, pb, pt) ==
    LET shape == <<image.shape[1], image.shape[2], image.shape[3] + pb + pt>>
    IN  [shape |-> shape,
         n_channels |-> image.n_channels,
         data |-> [idx \in Box(shape) |->
                      IF pb <= idx[3] /\ idx[3] < pb + image.shape[3]
                      THEN image.data[<<idx[1], idx[2], idx[3] - pb>>]
                      ELSE 0]]

\* Piece.from_path, given the tiles Tile.from_filename loaded: every tile is
\* padded along z and its z extent set to the common [z_min, z_max]; info is
\* left as loaded.  No tile raises IndexError (slice_scale[0]) and a negative
\* pad raises ValueError.
from_path(ts) ==
    IF Len(ts) = 0 THEN [raised |-> "IndexError", tiles |-> <<>>]
    ELSE
    LET slice_n == [k \in 1..Len(ts) |-> ts[k].image.shape[3]]
        slice_lb == [k \in 1..Len(ts) |-> ts[k].extent[5]]
        slice_ub == [k \in 1..Len(ts) |-> ts[k].extent[6]]
        z_scale == ts[1].info.voxel_size[3]
        z_min == MinOf({slice_lb[k] : k \in 1..Len(ts)})
        z_max == MaxOf({slice_ub[k] : k \in 1..Len(ts)})
        z_n == Ceil(z_max - z_min, z_scale)
        pad_bottom == [k \in 1..Len(ts) |-> Round(slice_lb[k] - z_min, z_scale)]
        pad_top == [k \in 1..Len(ts) |-> z_n - pad_bottom[k] - slice_n[k]]
    IN  IF \E k \in 1..Len(ts) : pad_top[k] < 0
        THEN [raised |-> "ValueError", tiles |-> <<>>]
        ELSE [raised |-> "none",
              tiles |-> [k \in 1..Len(ts) |->
                            [info |-> ts[k].info,
                             image |-> PadZ(ts[k].image, pad_bottom[k], pad_top[k]),
                             extent |-> <<ts[k].extent[1], ts[k].extent[2],
                                          ts[k].extent[3], ts[k].extent[4],
                                          z_min, z_max>>]]]

\* Tile.center: [dx, dx + width, dy, dy + height] + extent[4:] adds a list of
\* four numbers to an array, which numpy does element by element: the array
\* of the z extent has two elements, neither one nor four, so the sum raises
\* ValueError; a sum that can be formed is an array, which the List member
\* extent does not accept (TypeError).  The tile is never changed.
center(t, dx, dy) ==
    LET rest == Len(t.extent) - 4
    IN  IF Len(t.extent) < 4 \/ rest \notin {1, 4}
        THEN [raised |-> "ValueError", tile |-> t]
        ELSE [raised |-> "TypeError", tile |-> t]

\* Tile.get_state and Tile.set_state
tile_get_state(t) == [extent |-> t.extent]
tile_set_state(t, state) == [t EXCEPT !.extent = state.extent]

------------------------------------------------------------------------------
(* SpecPiece: the tiles of a Piece, loaded and padded by Piece.from_path,  *)
(* then moved and restored                                                 *)

\* the tiles Tile.from_filename can load for a piece: stacks that begin at
\* different depths and have different numbers of planes
PieceLowers == {<<0, 0, 0>>, <<0, 0, 2>>, <<2, 0, 1>>}
PieceShapes == {<<1, 1, 1>>, <<1, 1, 2>>}

PieceTileChoices(value) ==
    {TileInit([lower |-> l, voxel_size |-> v, channels |-> "DAPI", reader |-> "lif"],
              Full(sh, 1, value)) :
        l \in PieceLowers, v \in VoxelSizes, sh \in PieceShapes}

\* the lists of 1..n loaded tiles, the k-th filled with value k
RECURSIVE PieceTileLists(_)
PieceTileLists(n) ==
    IF n = 0 THEN {<<>>}
    ELSE LET shorter == PieceTileLists(n - 1)
         IN  shorter \cup
             {Append(l, t) : l \in {q \in shorter : Len(q) = n - 1},
                             t \in PieceTileChoices(n)}

\* where a registration step asks for the corner of a tile to be
Corners == {0, 5}

\* tiles = [Tile.from_filename(f) for f in tile_filenames]
InitPiece ==
    /\ tiles \in PieceTileLists(MaxTiles) \ {<<>>}
    /\ merged = NoValue
    /\ NoPoints /\ NoPeaks /\ NoEpochs /\ NoPieces

\* the rest of Piece.from_path
FromPath ==
    /\ op = "init"
    /\ \E r \in {from_path(tiles)} :
          /\ raised' = r.raised
          /\ tiles' = r.tiles
    /\ op' = "from_path"
    /\ UNCHANGED <<x, y, origin, exclude, ret, peaks, epochVars, merged, pieces>>

CenterTile ==
    /\ op # "init"
    /\ \E k \in 1..Len(tiles), dx \in Corners, dy \in Corners :
          \E r \in {center(tiles[k], dx, dy)} :
              /\ raised' = r.raised
              /\ tiles' = [tiles EXCEPT ![k] = r.tile]
    /\ op' = "center"
    /\ UNCHANGED <<x, y, origin, exclude, ret, peaks, epochVars, merged, pieces>>

\* tile.set_state(tile.get_state()), as when a saved piece is opened again
RestoreTileState ==
    /\ op # "init"
    /\ \E k \in 1..Len(tiles) :
          tiles' = [tiles EXCEPT ![k] = tile_set_state(tiles[k], tile_get_state(tiles[k]))]
    /\ raised' = "none"
    /\ op' = "set_state"
    /\ UNCHANGED <<x, y, origin, exclude, ret, peaks, epochVars, merged, pieces>>

NextPiece == FromPath \/ CenterTile \/ RestoreTileState

SpecPiece == InitPiece /\ [][NextPiece]_vars

\* C15: Tile.center(dx, dy) is a pure translation: the call does not raise,
\* the x and y extent of the tile become [dx, dx + width, dy, dy + height]
\* with the width and the height of before, and the z extent, the image and
\* the voxel size (and every other tile) are as before.
C15_CenterTranslates ==
    [][op' = "center" =>
          /\ raised' = "none"
          /\ \E k \in 1..Len(tiles), dx \in Corners, dy \in Corners :
                tiles' = [tiles EXCEPT ![k].extent =
                             <<dx, dx + (tiles[k].extent[2] - tiles[k].extent[1]),
                               dy, dy + (tiles[k].extent[4] - tiles[k].extent[3]),
                               tiles[k].extent[5], tiles[k].extent[6]>>]]_vars

\* C16: the extent of a tile stays consistent with its array and its info: on
\* every axis the lower end of the extent is info['lower'] and the upper end
\* is info['lower'] + image shape * voxel size, in every state reached by
\* loading, the z-padding of Piece.from_path and Tile.set_state (no call of
\* center moves a tile here, since every call raises).
C16_ExtentConsistent ==
    \A k \in 1..Len(tiles) : \A a \in Axes :
        /\ ExtentLower(tiles[k])[a] = tiles[k].info.lower[a]
        /\ ExtentUpper(tiles[k])[a] =
               tiles[k].info.lower[a] + tiles[k].image.shape[a] * tiles[k].info.voxel_size[a]

------------------------------------------------------------------------------
(* Further properties of Points, checked under SpecPoints and SpecPath     *)

\* a stored node lies strictly within the hit threshold of the finite point p
StrictlyWithin(p) ==
    \E i \in 1..Len(x) :
        /\ isfinite(x[i]) /\ isfinite(y[i])
        /\ (x[i].v - p[1].v) * (x[i].v - p[1].v) + (y[i].v - p[2].v) * (y[i].v - p[2].v)
               < hit_threshold * hit_threshold

\* the call raised ValueError and left the nodes, the origin and the
\* exclusions as they were
FailedCleanly == raised' = "ValueError" /\ UNCHANGED <<x, y, origin, exclude>>

\* C17: failed edits of a Points object are never partially applied: add_node
\* of a point that is not finite, and remove_node and set_origin of a point
\* that no stored node lies strictly within the hit threshold of (also when
\* there is no node), raise ValueError and leave x, y, origin and exclude as
\* before the call; add_node of a point within the hit threshold of a stored
\* node changes nothing and does not raise.
C17_FailedEditsNotApplied ==
    [][/\ op' = "add_node" =>
              /\ \A p \in BadClicks : add_node(p) => FailedCleanly
              /\ \A p \in Clicks :
                     (StrictlyWithin(p) /\ add_node(p)) =>
                         (raised' = "none" /\ UNCHANGED <<x, y, origin, exclude>>)
       /\ op' = "remove_node" =>
              \A p \in Clicks \cup NearClicks \cup EdgeClicks :
                  (~StrictlyWithin(p) /\ remove_node(p)) => FailedCleanly
       /\ op' = "set_origin" =>
              \A p \in Clicks \cup NearClicks \cup EdgeClicks :
                  (~StrictlyWithin(p) /\ set_origin(p)) => FailedCleanly]_vars

\* remove_node has failed on an object that has nodes
C17_Witness ==
    /\ op = "remove_node"
    /\ raised = "ValueError"
    /\ Len(x) > 0

\* the square of the Euclidean distance between two finite points
SquaredDistance(p, q) ==
    (p[1].v - q[1].v) * (p[1].v - q[1].v) + (p[2].v - q[2].v) * (p[2].v - q[2].v)

\* the greedy nearest-neighbour order of the stored points whose indices are
\* in remaining, after the point of index prev: the next point is the nearest
\* to the previous one, and of several nearest the earliest stored
RECURSIVE GreedyAfter(_, _, _)
GreedyAfter(nodes, remaining, prev) ==
    IF remaining = {} THEN <<>>
    ELSE LET next == CHOOSE j \in remaining : \A k \in remaining :
                         \/ SquaredDistance(nodes[prev], nodes[j])
                                < SquaredDistance(nodes[prev], nodes[k])
                         \/ /\ SquaredDistance(nodes[prev], nodes[j])
                                   = SquaredDistance(nodes[prev], nodes[k])
                            /\ j <= k
         IN  <<nodes[next]>> \o GreedyAfter(nodes, remaining \ {next}, next)

\* C18: get_nodes follows the greedy nearest-neighbour order: for one or more
\* stored points (of finite coordinates, between which there is a Euclidean
\* distance) and an origin that indexes them, the first point of the path is
\* the stored point at the origin, and every later point is, of the points
\* not yet in the path, the one nearest to the point before it, the earliest
\* in stored order when several are nearest.
C18_GreedyNearestNeighbour ==
    (op = "get_nodes" /\ Len(x) >= 1 /\ AllFinite(Zip(x, y))) =>
        /\ raised = "none"
        /\ ret = <<Zip(x, y)[origin + 1]>>
                     \o GreedyAfter(Zip(x, y), (1..Len(x)) \ {origin + 1}, origin + 1)

\* the path was made from <<0, 0>>, to which two other points are equally
\* near, and the one stored first came next
C18_Witness ==
    /\ op = "get_nodes"
    /\ Zip(x, y) = <<<<Fin(0), Fin(0)>>, <<Fin(30), Fin(0)>>, <<Fin(0), Fin(30)>>>>
    /\ origin = 0
    /\ ret = <<<<Fin(0), Fin(0)>>, <<Fin(30), Fin(0)>>, <<Fin(0), Fin(30)>>>>

\* C19: the origin of a Points object always designates a stored node: in
\* every state reached from an empty object by add_node, remove_node,
\* set_origin, set_nodes and set_state, when there are nodes the origin is
\* at least 0 and less than their number, so that get_nodes never pops past
\* the end of the node list.
C19_OriginDesignatesNode ==
    Len(x) > 0 =>
        /\ 0 <= origin
        /\ origin < Len(x)
        /\ get_nodes(x, y, origin).raised # "IndexError"

==============================================================================
